---- MODULE Spec2Model ----
(***************************************************************************)
(* Model of tew_radar.py: a radar overlay that attaches to a game process, *)
(* walks its entity table through raw memory reads, decodes and classifies *)
(* every entity and renders one frame per tick.                            *)
(*                                                                         *)
(* A memory read either fails (the pymem exception the code catches and    *)
(* turns into None) or yields a value: None / Some(v).  Floats are         *)
(* modelled by integers, strings by sequences of one-character strings so  *)
(* that lower() and the substring test `in` are computed, not assumed.     *)
(***************************************************************************)
EXTENDS Integers, Sequences, FiniteSets, TLC

\* ---------------------------------------------------------------- constants
MAX_ENTITIES == 100
POINTER_SPACING == 24
GUARD == 65536
POSITION_LIMIT == 1000000
STRING_BYTES == 50
default_range == 1000
min_range == 100
max_range == 5000
range_step == 100

\* ------------------------------------------------------- bounds of the model
\* slots 0..MaxTableLen may hold a special (invalid or rejected) slot, and a
\* short table has at most MaxTableLen slots
MaxTableLen == 13
\* frames rendered before the frame counter stops counting
MaxFrames == 2

\* ------------------------------------------------------------ read results
None == [ok |-> FALSE, v |-> 0]
Some(val) == [ok |-> TRUE, v |-> val]
IsNone(r) == ~r.ok

\* Python's `value or default` on an optional number / string
OrDefault(r, d) == IF r.ok /\ r.v # d THEN r.v ELSE d

Abs(n) == IF n < 0 THEN -n ELSE n
Min(a, b) == IF a < b THEN a ELSE b
Max(a, b) == IF a > b THEN a ELSE b

\* ------------------------------------------------------------------ strings
UpperCase == <<"A","B","C","D","E","F","G","H","I","J","K","L","M",
               "N","O","P","Q","R","S","T","U","V","W","X","Y","Z">>
LowerCase == <<"a","b","c","d","e","f","g","h","i","j","k","l","m",
               "n","o","p","q","r","s","t","u","v","w","x","y","z">>

\* str.lower(), character by character
LowerChar(c) ==
    IF \E k \in 1..26 : UpperCase[k] = c
    THEN LowerCase[CHOOSE k \in 1..26 : UpperCase[k] = c]
    ELSE c
Lower(s) == [k \in 1..Len(s) |-> LowerChar(s[k])]

\* Python's `p in s` on strings
Contains(p, s) ==
    \E k \in 0..(Len(s) - Len(p)) : SubSeq(s, k + 1, k + Len(p)) = p

s_idplayer == <<"i","d","p","l","a","y","e","r">>
s_player == <<"p","l","a","y","e","r">>
s_idpartner == <<"i","d","p","a","r","t","n","e","r">>
s_idnpcenemy == <<"i","d","n","p","c","e","n","e","m","y">>
s_enemy == <<"e","n","e","m","y">>
s_idnpc == <<"i","d","n","p","c">>
s_npc == <<"n","p","c">>
s_civilian == <<"c","i","v","i","l","i","a","n">>

\* ------------------------------------------------------------ classification
\* EnemyAlive with >= for >
EnemyAliveAtZero(health) == health >= 0

\* `if health and health > 0`
EnemyAlive(health) == health # 0 /\ health > 0

\* ClassifyLowered with the enemy test in front of the partner test
ClassifyEnemyBeforePartner(class_lower, instance_lower, health) ==
    IF Contains(s_idplayer, class_lower) \/ Contains(s_player, instance_lower)
    THEN "player"
    ELSE IF Contains(s_idnpcenemy, class_lower) \/ Contains(s_enemy, class_lower)
    THEN (IF EnemyAlive(health) THEN "enemy" ELSE "npc")
    ELSE IF Contains(s_idpartner, class_lower)
    THEN "partner"
    ELSE IF Contains(s_idnpc, class_lower) \/ Contains(s_npc, class_lower)
            \/ Contains(s_civilian, class_lower)
    THEN "npc"
    ELSE "object"

\* _classify_entity from `# Check for player` on
ClassifyLowered(class_lower, instance_lower, health) ==
    IF Contains(s_idplayer, class_lower) \/ Contains(s_player, instance_lower)
    THEN "player"
    ELSE IF Contains(s_idpartner, class_lower)
    THEN "partner"
    ELSE IF Contains(s_idnpcenemy, class_lower) \/ Contains(s_enemy, class_lower)
    THEN (IF EnemyAlive(health) THEN "enemy" ELSE "npc")
    ELSE IF Contains(s_idnpc, class_lower) \/ Contains(s_npc, class_lower)
            \/ Contains(s_civilian, class_lower)
    THEN "npc"
    ELSE "object"

_classify_entity(class_name, instance_name, health) ==
    ClassifyLowered(Lower(class_name), Lower(instance_name), health)

\* --------------------------------------------------------- game memory model
\* What the reads of one entity's memory block return.  A name is reached
\* through a pointer, so a block holds the pointer read and the string read.
Block(cptr, cstr, iptr, istr, hp, px, py, pz, rc, rs, al) ==
    [class_ptr |-> cptr, class_str |-> cstr,
     instance_ptr |-> iptr, instance_str |-> istr,
     health |-> hp, x |-> px, y |-> py, z |-> pz,
     rot_c |-> rc, rot_s |-> rs, alertness |-> al]

NoBlock == Block(None, None, None, None, None, None, None, None, None, None, None)

n_idPlayer == <<"i","d","P","l","a","y","e","r">>
n_idNpcEnemy == <<"i","d","N","p","c","E","n","e","m","y">>
n_idPartner == <<"i","d","P","a","r","t","n","e","r">>
n_idStaticProp == <<"i","d","S","t","a","t","i","c","P","r","o","p">>
n_idNpcCorpse == <<"i","d","N","p","c","C","o","r","p","s","e">>
n_seb == <<"s","e","b">>

\* address of the string a name pointer of slot i points to
StrAddr(i) == 8 * GUARD + i * 256
\* address the valid pointer of slot i holds: slot 0 sits on the guard threshold
EntAddr(i) == GUARD + i * 4096
\* the address the game keeps its entity table at
TableAddr == 4 * GUARD

Named(i, cname, hp, px, py, al) ==
    Block(Some(StrAddr(i)), Some(cname), Some(StrAddr(i) + 128), Some(n_seb),
          Some(hp), Some(px), Some(py), Some(0), Some(1), Some(0), Some(al))

\* the content of slot i of a table, by kind: the pointer read and the block
SlotOfKind(kind, i) ==
    CASE kind = "fail" -> [ptr |-> None, blk |-> NoBlock]
      [] kind = "zero" -> [ptr |-> Some(0), blk |-> NoBlock]
      [] kind = "low" -> [ptr |-> Some(GUARD - 1), blk |-> NoBlock]
      [] kind = "neg" -> [ptr |-> Some(-1), blk |-> NoBlock]
      [] kind = "no_x" ->
            [ptr |-> Some(EntAddr(i)),
             blk |-> [Named(i, n_idNpcEnemy, 50, 0, 7, -1) EXCEPT !.x = None]]
      [] kind = "no_y" ->
            [ptr |-> Some(EntAddr(i)),
             blk |-> [Named(i, n_idNpcEnemy, 50, 7, 0, -1) EXCEPT !.y = None]]
      [] kind = "far_x" ->
            [ptr |-> Some(EntAddr(i)),
             blk |-> Named(i, n_idNpcEnemy, 50, 2 * POSITION_LIMIT, 0, -1)]
      [] kind = "edge_x" ->
            [ptr |-> Some(EntAddr(i)),
             blk |-> Named(i, n_idNpcEnemy, 50, POSITION_LIMIT, 0, -1)]
      [] kind = "near_x" ->
            [ptr |-> Some(EntAddr(i)),
             blk |-> Named(i, n_idNpcEnemy, 50, 1 - POSITION_LIMIT, 0, -1)]
      [] kind = "far_y" ->
            [ptr |-> Some(EntAddr(i)),
             blk |-> Named(i, n_idNpcEnemy, 50, 0, -POSITION_LIMIT, -1)]
      [] kind = "far_z" ->
            [ptr |-> Some(EntAddr(i)),
             blk |-> [Named(i, n_idNpcEnemy, 50, 0, 0, -1)
                        EXCEPT !.z = Some(-POSITION_LIMIT)]]
      [] kind = "bare" ->
            [ptr |-> Some(EntAddr(i)),
             blk |-> [NoBlock EXCEPT !.x = Some(i), !.y = Some(-i)]]
      [] kind = "bad_names" ->
            [ptr |-> Some(EntAddr(i)),
             blk |-> [Named(i, n_idNpcEnemy, 50, 3, 4, 0)
                        EXCEPT !.class_ptr = Some(GUARD - 1),
                               !.instance_ptr = Some(0)]]
      [] kind = "player" ->
            [ptr |-> Some(EntAddr(i)),
             blk |-> Named(i, n_idPlayer, 100, 0, 0, -1)]
      [] kind = "enemy" ->
            [ptr |-> Some(EntAddr(i)),
             blk |-> Named(i, n_idNpcEnemy, 50, 0, 100, 0)]
      [] kind = "dead" ->
            [ptr |-> Some(EntAddr(i)),
             blk |-> Named(i, n_idNpcEnemy, 0, 100, 0, 0)]
      [] kind = "hurt" ->
            [ptr |-> Some(EntAddr(i)),
             blk |-> Named(i, n_idNpcEnemy, -5, 100, 100, 0)]
      [] kind = "no_health" ->
            [ptr |-> Some(EntAddr(i)),
             blk |-> [Named(i, n_idNpcEnemy, 50, -100, 0, 0)
                        EXCEPT !.health = None]]
      [] kind = "partner" ->
            [ptr |-> Some(EntAddr(i)),
             blk |-> Named(i, n_idPartner, 100, 0, -100, -1)]
      [] kind = "corpse" ->
            [ptr |-> Some(EntAddr(i)),
             blk |-> Named(i, n_idNpcCorpse, 0, 50, 50, -1)]
      [] OTHER ->
            [ptr |-> Some(EntAddr(i)),
             blk |-> Named(i, n_idStaticProp, 0, 10, 10, -1)]

\* A table: what the read of the entity list pointer returns (base), its first
\* slots (head), two slots that may differ from the rest (a, b; -1 for none),
\* and a filling up to len slots.  Slots from len on are zero.
SlotOf(t, i) ==
    IF i = t.a THEN SlotOfKind(t.ka, i)
    ELSE IF i = t.b THEN SlotOfKind(t.kb, i)
    ELSE IF i < Len(t.head) THEN SlotOfKind(t.head[i + 1], i)
    ELSE IF i < t.len THEN SlotOfKind(t.fill, i)
    ELSE SlotOfKind("zero", i)

\* pm.read_longlong(base_address + index * POINTER_SPACING)
ReadSlotPointer(t, base_address, index) == SlotOf(t, index).ptr

\* --------------------------------------------------------------- the decoder
ENTITY_FIELD_CONFIG ==
    [class_name |-> [pointer |-> TRUE, type |-> "string"],
     instance_name |-> [pointer |-> TRUE, type |-> "string"],
     health |-> [pointer |-> FALSE, type |-> "float"],
     x |-> [pointer |-> FALSE, type |-> "float"],
     y |-> [pointer |-> FALSE, type |-> "float"],
     z |-> [pointer |-> FALSE, type |-> "float"],
     rot_c |-> [pointer |-> FALSE, type |-> "float"],
     rot_s |-> [pointer |-> FALSE, type |-> "float"],
     alertness |-> [pointer |-> FALSE, type |-> "short"]]

\* pm.read_string(value_address, byte=50)
ReadString(r) ==
    IF r.ok THEN Some(SubSeq(r.v, 1, Min(Len(r.v), STRING_BYTES))) ELSE None

\* a pointer that passes `not p or p < 0x10000`
PlausiblePointer(p) == p # 0 /\ ~(p < GUARD)

_read_field(blk, field_name) ==
    IF ENTITY_FIELD_CONFIG[field_name].pointer
    THEN LET pointer_addr == IF field_name = "class_name"
                             THEN blk.class_ptr ELSE blk.instance_ptr
             text == IF field_name = "class_name"
                     THEN blk.class_str ELSE blk.instance_str
         IN  IF IsNone(pointer_addr) THEN None
             ELSE IF ~PlausiblePointer(pointer_addr.v) THEN None
             ELSE ReadString(text)
    ELSE blk[field_name]

\* is_valid_position with <= for <
IsValidPositionInclusive(position) ==
    /\ Abs(position.x) <= POSITION_LIMIT
    /\ Abs(position.y) <= POSITION_LIMIT
    /\ Abs(position.z) <= POSITION_LIMIT

is_valid_position(position) ==
    /\ Abs(position.x) < POSITION_LIMIT
    /\ Abs(position.y) < POSITION_LIMIT
    /\ Abs(position.z) < POSITION_LIMIT

\* read_entity from `# Create entity object` on: the fields are all read
AssembleEntity(address, fields, class_name, instance_name, health) ==
    [address |-> address,
     position |-> [x |-> fields["x"].v, y |-> fields["y"].v,
                   z |-> OrDefault(fields["z"], 0)],
     entity_type |-> _classify_entity(class_name, instance_name, health),
     health |-> health,
     class_name |-> class_name,
     instance_name |-> instance_name,
     rotation |-> IF fields["rot_c"].ok /\ fields["rot_s"].ok
                  THEN Some([cos_theta |-> fields["rot_c"].v,
                             sin_theta |-> fields["rot_s"].v])
                  ELSE None,
     alertness |-> fields["alertness"]]

\* return entity if entity.is_valid_position() else None
ValidOrNone(entity) ==
    IF is_valid_position(entity.position) THEN Some(entity) ELSE None

\* read_entity from `# Validate required fields` on
DecodeFields(address, fields) ==
    IF IsNone(fields["x"]) \/ IsNone(fields["y"]) THEN None
    ELSE ValidOrNone(AssembleEntity(address, fields,
                                    OrDefault(fields["class_name"], << >>),
                                    OrDefault(fields["instance_name"], << >>),
                                    OrDefault(fields["health"], 0)))

\* read_entity from `# Validate pointer` on: entity_address is the result of
\* the slot's pointer read, blk the memory the pointer leads to
DecodeSlot(entity_address, blk) ==
    IF IsNone(entity_address) THEN None
    ELSE IF ~PlausiblePointer(entity_address.v) THEN None
    ELSE DecodeFields(entity_address.v,
                      [f \in DOMAIN ENTITY_FIELD_CONFIG |-> _read_field(blk, f)])

\* read_entity(base_address, index): None, or Some(entity)
read_entity(t, base_address, index) ==
    DecodeSlot(ReadSlotPointer(t, base_address, index), SlotOf(t, index).blk)

\* --------------------------------------------------------------- the scanner
\* One iteration of the for loop of read_all_entities.  loop holds the loop
\* variable i, the list built so far, whether the loop has ended (i ran out
\* of range(MAX_ENTITIES), or break), and the calls of read_entity so far.
\* ScanBody with `if i >= 10`
ScanBodyBreaksAtTen(loop, entity) ==
    IF IsNone(entity)
    THEN IF loop.i >= 10
         THEN [loop EXCEPT !.ended = TRUE, !.slots_read = loop.slots_read + 1]
         ELSE [loop EXCEPT !.i = loop.i + 1, !.slots_read = loop.slots_read + 1]
    ELSE [loop EXCEPT !.i = loop.i + 1, !.slots_read = loop.slots_read + 1,
                      !.entities = Append(loop.entities, entity.v)]

\* ScanBody without the break
ScanBodyNeverBreaks(loop, entity) ==
    IF IsNone(entity)
    THEN [loop EXCEPT !.i = loop.i + 1, !.slots_read = loop.slots_read + 1]
    ELSE [loop EXCEPT !.i = loop.i + 1, !.slots_read = loop.slots_read + 1,
                      !.entities = Append(loop.entities, entity.v)]

ScanBody(loop, entity) ==
    IF IsNone(entity)
    THEN IF loop.i > 10
         THEN [loop EXCEPT !.ended = TRUE, !.slots_read = loop.slots_read + 1]
         ELSE [loop EXCEPT !.i = loop.i + 1, !.slots_read = loop.slots_read + 1]
    ELSE [loop EXCEPT !.i = loop.i + 1, !.slots_read = loop.slots_read + 1,
                      !.entities = Append(loop.entities, entity.v)]

ScanIteration(t, base_address, loop) ==
    IF loop.ended THEN loop
    ELSE IF loop.i >= MAX_ENTITIES THEN [loop EXCEPT !.ended = TRUE]
    ELSE ScanBody(loop, read_entity(t, base_address, loop.i))

\* n iterations in a row: the second half run on the result of the first
RECURSIVE ScanIterations(_, _, _, _)
ScanIterations(t, base_address, loop, n) ==
    IF n = 0 THEN loop
    ELSE IF n = 1 THEN ScanIteration(t, base_address, loop)
    ELSE CHOOSE result \in
            {ScanIterations(t, base_address, half, n - (n \div 2))
                : half \in {ScanIterations(t, base_address, loop, n \div 2)}}
            : TRUE

\* read_all_entities without `if not base_address: return []`
ReadAllIgnoringZeroBase(t) ==
    IF IsNone(t.base) THEN [entities |-> << >>, slots_read |-> 0]
    ELSE LET loop == ScanIterations(t, t.base.v,
                                    [i |-> 0, entities |-> << >>,
                                     ended |-> FALSE, slots_read |-> 0],
                                    MAX_ENTITIES)
         IN  [entities |-> loop.entities, slots_read |-> loop.slots_read]

read_all_entities(t) ==
    IF IsNone(t.base) THEN [entities |-> << >>, slots_read |-> 0]
    ELSE IF t.base.v = 0 THEN [entities |-> << >>, slots_read |-> 0]
    ELSE LET loop == ScanIterations(t, t.base.v,
                                    [i |-> 0, entities |-> << >>,
                                     ended |-> FALSE, slots_read |-> 0],
                                    MAX_ENTITIES)
         IN  [entities |-> loop.entities, slots_read |-> loop.slots_read]

\* ---------------------------------------------------------------- the radar
width == 800
height == 800

\* to_radar_space as it was before radar_y was negated ("negated compared to
\* original" in its docstring)
ToRadarSpaceOriginal(rotation, world_x, world_y) ==
    LET local_x == rotation.cos_theta * world_x - rotation.sin_theta * world_y
        local_y == rotation.sin_theta * world_x + rotation.cos_theta * world_y
    IN  [radar_x |-> -local_y, radar_y |-> local_x]

\* Rotation.to_radar_space
to_radar_space(rotation, world_x, world_y) ==
    LET local_x == rotation.cos_theta * world_x - rotation.sin_theta * world_y
        local_y == rotation.sin_theta * world_x + rotation.cos_theta * world_y
    IN  [radar_x |-> -local_y, radar_y |-> -local_x]

\* Rotation.transform_direction_to_radar
transform_direction_to_radar(rotation, world_dir_x, world_dir_y) ==
    to_radar_space(rotation, world_dir_x, world_dir_y)

\* a forward vector that keeps the sign of sin_theta
ForwardVectorSameSign(rotation) ==
    [x |-> rotation.cos_theta, y |-> rotation.sin_theta]

\* Rotation.forward_vector
forward_vector(rotation) == [x |-> rotation.cos_theta, y |-> -rotation.sin_theta]

\* int(n / d) for d > 0: Python's int() truncates towards zero
TruncDiv(n, d) == IF n >= 0 THEN n \div d ELSE -((-n) \div d)

\* int(center + radar * scale) with scale = width / (2 * radar_range)
world_to_screen(range, radar_x, radar_y) ==
    [screen_x |-> TruncDiv((width \div 2) * 2 * range + radar_x * width, 2 * range),
     screen_y |-> TruncDiv((height \div 2) * 2 * range + radar_y * width, 2 * range)]

is_on_screen(screen_x, screen_y) ==
    0 <= screen_x /\ screen_x < width /\ 0 <= screen_y /\ screen_y < height

is_alerted(entity) == entity.alertness.ok /\ entity.alertness.v = 0

\* what draw_entity paints for an entity
Shape(entity) ==
    CASE entity.entity_type = "player" -> "player_triangle"
      [] entity.entity_type = "enemy" ->
            IF is_alerted(entity) THEN "enemy_alerted" ELSE "enemy"
      [] entity.entity_type = "partner" -> "partner_diamond"
      [] entity.entity_type = "npc" -> "npc_circle"
      [] OTHER -> "object_circle"

\* next((e for e in entities if e.entity_type == PLAYER), None)
FindPlayer(ents) ==
    LET idx == {k \in 1..Len(ents) : ents[k].entity_type = "player"}
    IN  IF idx = {} THEN None
        ELSE Some(ents[CHOOSE k \in idx : \A j \in idx : k <= j])

\* sum(1 for e in entities if e.entity_type == ENEMY and e.is_alerted())
CountAlerted(ents) ==
    Cardinality({k \in 1..Len(ents) :
                    ents[k].entity_type = "enemy" /\ is_alerted(ents[k])})

\* the entities the loop of run() draws, in order, each with its shape
RECURSIVE DrawFrom(_, _, _, _)
DrawFrom(ents, player, range, k) ==
    IF k > Len(ents) THEN << >>
    ELSE LET entity == ents[k]
             rel_x == entity.position.x - player.position.x
             rel_y == entity.position.y - player.position.y
             radar == to_radar_space(player.rotation.v, rel_x, rel_y)
             screen == world_to_screen(range, radar.radar_x, radar.radar_y)
             rest == DrawFrom(ents, player, range, k + 1)
         IN  IF is_on_screen(screen.screen_x, screen.screen_y)
             THEN <<[address |-> entity.address, shape |-> Shape(entity),
                     screen_x |-> screen.screen_x,
                     screen_y |-> screen.screen_y]>> \o rest
             ELSE rest

DrawEntities(ents, range) ==
    LET player == FindPlayer(ents)
    IN  IF player.ok /\ player.v.rotation.ok
        THEN DrawFrom(ents, player.v, range, 1)
        ELSE << >>

\* ------------------------------------------------------------------- events
EventKinds == {"QUIT", "K_ESCAPE", "K_MINUS", "K_UNDERSCORE", "K_PLUS",
               "K_EQUALS", "K_OTHER", "MOUSEMOTION"}

\* the number of events pygame.event.get() returns in one tick, at most
MaxEvents == 2

EventBatches == UNION {[1..n -> EventKinds] : n \in 0..MaxEvents}

\* K_MINUS / K_UNDERSCORE
ZoomOut(range) == Min(max_range, range + range_step)

\* ZoomIn without max(min_range, ...)
ZoomInUnclamped(range) == range - range_step

\* K_PLUS / K_EQUALS
ZoomIn(range) == Max(min_range, range - range_step)

\* the for loop of handle_events from event k on
RECURSIVE HandleFrom(_, _, _)
HandleFrom(events, k, range) ==
    IF k > Len(events) THEN [running |-> TRUE, radar_range |-> range]
    ELSE IF events[k] = "QUIT" THEN [running |-> FALSE, radar_range |-> range]
    ELSE IF events[k] = "K_ESCAPE" THEN [running |-> FALSE, radar_range |-> range]
    ELSE IF events[k] \in {"K_MINUS", "K_UNDERSCORE"}
         THEN HandleFrom(events, k + 1, ZoomOut(range))
    ELSE IF events[k] \in {"K_PLUS", "K_EQUALS"}
         THEN HandleFrom(events, k + 1, ZoomIn(range))
    ELSE HandleFrom(events, k + 1, range)

handle_events(events, range) == HandleFrom(events, 1, range)

\* ------------------------------------------------------------------ tables
NoTable == [base |-> None, head |-> << >>, a |-> -1, ka |-> "zero",
            b |-> -1, kb |-> "zero", len |-> 0, fill |-> "zero"]

\* what the read of the entity list pointer may return: a failure, zero, a
\* value below the guard threshold, the table's address
BaseReads == {None, Some(0), Some(POINTER_SPACING), Some(TableAddr)}

\* the tables the running program meets
AppHeads == {<< >>, <<"player", "enemy", "dead">>,
             <<"enemy", "no_health", "player", "partner">>,
             <<"hurt", "corpse", "prop", "bad_names">>}
AppTables ==
    {[NoTable EXCEPT !.base = bs, !.head = h, !.len = Len(h)]
        : bs \in BaseReads, h \in AppHeads}
    \cup {[NoTable EXCEPT !.base = Some(TableAddr), !.head = h, !.len = Len(h),
                          !.a = 1, !.ka = "no_x"]
            : h \in AppHeads}

\* ---------------------------------------------------------------- the state
VARIABLES
    pc,            \* where main() is
    handle,        \* the attached-process handle self.pm
    module_base,   \* GameMemoryReader.module_base
    display,       \* pygame: "none", "up" or "quit"
    radar_range,   \* RadarDisplay.radar_range
    raised,        \* the exception main() caught
    log,           \* the last message logged
    table,         \* the game's memory as the last tick read it
    entities,      \* the snapshot of the last tick
    slots_read,    \* calls of read_entity in the last tick
    base_failures, \* ticks whose read of the entity list pointer gave nothing (capped)
    drawn,         \* what the last frame shows
    alerted_count, \* the alerted-enemy count of the last frame
    frames,        \* frames flipped so far (capped)
    probe          \* an input of _classify_entity and its result

vars == <<pc, handle, module_base, display, radar_range, raised, log, table,
          entities, slots_read, base_failures, drawn, alerted_count, frames, probe>>

NoProbe == [class_name |-> << >>, instance_name |-> << >>, health |-> 0,
            entity_type |-> "object"]

Init ==
    /\ pc = "start"
    /\ handle = "none"
    /\ module_base = None
    /\ display = "none"
    /\ radar_range = 0
    /\ raised = "none"
    /\ log = ""
    /\ table = NoTable
    /\ entities = << >>
    /\ slots_read = 0
    /\ base_failures = 0
    /\ drawn = << >>
    /\ alerted_count = 0
    /\ frames = 0
    /\ probe = NoProbe

tick_vars == <<table, entities, slots_read, base_failures, drawn, alerted_count, frames>>

\* GameMemoryReader._attach_to_process: pymem.Pymem(game_exe) returns or raises
AttachProcess ==
    /\ pc = "start"
    /\ \E found \in BOOLEAN :
          IF found
          THEN /\ handle' = "open"
               /\ pc' = "attached"
               /\ log' = "Attached"
               /\ UNCHANGED raised
          ELSE /\ handle' = "none"
               /\ pc' = "done"
               /\ raised' = "MemoryReadError"
               /\ log' = "Failed to initialize"
    /\ UNCHANGED <<module_base, display, radar_range, probe>>
    /\ UNCHANGED tick_vars

\* GetModuleBase with the failure swallowed: __init__ goes on without a base
GetModuleBaseSwallowsFailure ==
    /\ pc = "attached"
    /\ \E resolved \in BOOLEAN :
          /\ module_base' = IF resolved THEN Some(16 * GUARD) ELSE None
          /\ pc' = "reader_ready"
          /\ log' = "Entity list pointer"
          /\ UNCHANGED raised
    /\ UNCHANGED <<handle, display, radar_range, probe>>
    /\ UNCHANGED tick_vars

\* GameMemoryReader._get_module_base, then the rest of __init__
GetModuleBase ==
    /\ pc = "attached"
    /\ \E resolved \in BOOLEAN :
          IF resolved
          THEN /\ module_base' = Some(16 * GUARD)
               /\ pc' = "reader_ready"
               /\ log' = "Entity list pointer"
               /\ UNCHANGED raised
          ELSE /\ module_base' = None
               /\ pc' = "done"
               /\ raised' = "MemoryReadError"
               /\ log' = "Failed to initialize"
    /\ UNCHANGED <<handle, display, radar_range, probe>>
    /\ UNCHANGED tick_vars

\* RadarDisplay.__init__: pygame comes up, or raises into main()
DisplayInit ==
    /\ pc = "reader_ready"
    /\ \E up \in BOOLEAN :
          IF up
          THEN /\ display' = "up"
               /\ radar_range' = default_range
               /\ pc' = "events"
               /\ UNCHANGED <<raised, log>>
          ELSE /\ pc' = "done"
               /\ raised' = "Exception"
               /\ log' = "Fatal error"
               /\ UNCHANGED <<display, radar_range>>
    /\ UNCHANGED <<handle, module_base, probe>>
    /\ UNCHANGED tick_vars

\* handle_events whose result run() does not test: the tick goes on to the
\* memory read whatever was observed
HandleEventsWithoutBreak(events) ==
    /\ pc = "events"
    /\ LET r == handle_events(events, radar_range)
       IN  /\ radar_range' = r.radar_range
           /\ pc' = "read"
    /\ table' = NoTable
    /\ entities' = << >>
    /\ slots_read' = 0
    /\ drawn' = << >>
    /\ alerted_count' = 0
    /\ UNCHANGED <<handle, module_base, display, raised, log, probe,
                   base_failures, frames>>

\* running = self.display.handle_events(); if not running: break
\* A new iteration never reads what the one before left in its locals and on
\* the screen (draw_background fills it), so the model forgets them here.
HandleEventsOn(events) ==
    /\ pc = "events"
    /\ LET r == handle_events(events, radar_range)
       IN  /\ radar_range' = r.radar_range
           /\ pc' = IF r.running THEN "read" ELSE "finally"
    /\ table' = NoTable
    /\ entities' = << >>
    /\ slots_read' = 0
    /\ drawn' = << >>
    /\ alerted_count' = 0
    /\ UNCHANGED <<handle, module_base, display, raised, log, probe,
                   base_failures, frames>>

\* one poll of the event queue, whatever pygame.event.get() returns
HandleEvents == \E events \in EventBatches : HandleEventsOn(events)

\* entities = self.memory_reader.read_all_entities(), on the memory the game
\* holds at this tick
ReadAllFrom(tables) ==
    /\ pc = "read"
    /\ \E t \in tables :
          LET r == read_all_entities(t)
          IN  /\ table' = t
              /\ entities' = r.entities
              /\ slots_read' = r.slots_read
              /\ base_failures' = IF IsNone(t.base) \/ t.base.v = 0
                                  THEN Min(base_failures + 1, MaxFrames)
                                  ELSE base_failures
    /\ pc' = "draw"
    /\ UNCHANGED <<handle, module_base, display, radar_range, raised, log,
                   drawn, alerted_count, frames, probe>>

ReadAll == ReadAllFrom(AppTables)

\* the rest of the tick: find the player, count, draw, flip
DrawFrame ==
    /\ pc = "draw"
    /\ alerted_count' = CountAlerted(entities)
    /\ drawn' = DrawEntities(entities, radar_range)
    /\ frames' = Min(frames + 1, MaxFrames)
    /\ pc' = "events"
    /\ UNCHANGED <<handle, module_base, display, radar_range, raised, log,
                   table, entities, slots_read, base_failures, probe>>

\* KeyboardInterrupt or another exception raised inside the try of run()
LoopRaise ==
    /\ pc \in {"events", "read", "draw"}
    /\ \E e \in {"Interrupted by user", "Unexpected error"} : log' = e
    /\ pc' = "finally"
    /\ UNCHANGED <<handle, module_base, display, radar_range, raised, probe>>
    /\ UNCHANGED tick_vars

\* finally: self.display.quit(); run() and main() return
Finally ==
    /\ pc = "finally"
    /\ display' = "quit"
    /\ pc' = "done"
    /\ UNCHANGED <<handle, module_base, radar_range, raised, log, probe>>
    /\ UNCHANGED tick_vars

Next ==
    \/ AttachProcess
    \/ GetModuleBase
    \/ DisplayInit
    \/ HandleEvents
    \/ ReadAll
    \/ DrawFrame
    \/ LoopRaise
    \/ Finally

Spec == Init /\ [][Next]_vars

\* ------------------------------------------------- the scanner on its own
\* read_all_entities applied once to each table of a family: one or two slots
\* a < b of any content in a table whose other slots hold entities without
\* names, up to the table's length
InvalidKinds == {"fail", "zero", "low", "neg"}
RejectedKinds == {"no_x", "no_y", "far_x", "edge_x", "far_y", "far_z"}
AcceptedKinds == {"near_x", "bare", "bad_names", "enemy"}
ScanKinds == InvalidKinds \cup RejectedKinds \cup AcceptedKinds
LaterKinds == {"zero", "no_x", "enemy"}
ScanIndex == 0..MaxTableLen \cup {MAX_ENTITIES - 1}
ShortLens == {0, MaxTableLen \div 2, MaxTableLen + 1}

ScanTables ==
    {[NoTable EXCEPT !.base = Some(TableAddr), !.len = n, !.fill = "bare",
                     !.a = i, !.ka = k]
        : n \in ShortLens \cup {MAX_ENTITIES}, i \in ScanIndex, k \in ScanKinds}
    \cup {[NoTable EXCEPT !.base = Some(TableAddr), !.len = n, !.fill = "bare",
                          !.a = ij[1], !.ka = k, !.b = ij[2], !.kb = l]
            : n \in ShortLens,
              ij \in {p \in (0..MaxTableLen) \X (0..MaxTableLen) : p[1] < p[2]},
              k \in ScanKinds, l \in LaterKinds}
    \cup {[NoTable EXCEPT !.base = Some(TableAddr), !.len = MAX_ENTITIES,
                          !.fill = "bare",
                          !.a = i, !.ka = k, !.b = MAX_ENTITIES - 1, !.kb = l]
            : i \in 0..MaxTableLen, k \in InvalidKinds \cup {"no_x"},
              l \in LaterKinds}

InitScan ==
    /\ pc = "read"
    /\ handle = "open"
    /\ module_base = Some(16 * GUARD)
    /\ display = "up"
    /\ radar_range = default_range
    /\ raised = "none"
    /\ log = "Entity list pointer"
    /\ table \in ScanTables
    /\ entities = << >>
    /\ slots_read = 0
    /\ base_failures = 0
    /\ drawn = << >>
    /\ alerted_count = 0
    /\ frames = 0
    /\ probe = NoProbe

ScanReadAll == ReadAllFrom({table})

NextScan == ScanReadAll

SpecScan == InitScan /\ [][NextScan]_vars

\* --------------------------------------------- the classifier on its own
\* _classify_entity applied once to each input of a family
ClassNames ==
    {<<"i","d","P","l","a","y","e","r">>,
     <<"i","d","N","p","c","E","n","e","m","y">>,
     <<"i","d","P","a","r","t","n","e","r">>,
     <<"i","d","S","t","a","t","i","c","P","r","o","p">>,
     <<"i","d","N","p","c","C","o","r","p","s","e">>,
     <<"I","D","P","L","A","Y","E","R">>,
     <<"i","d","P","a","r","t","n","e","r","E","n","e","m","y">>,
     <<"i","d","P","l","a","y","e","r","P","a","r","t","n","e","r">>,
     <<"E","n","e","m","y","B","o","s","s">>,
     <<"C","i","v","i","l","i","a","n">>,
     <<"x","N","P","C","x">>,
     <<"p","l","a","y","e","r">>,
     <<"i","d","N","p","c","A","n","i","m","a","l","_","C","r","o","w">>,
     << >>}
InstanceNames ==
    {<< >>,
     <<"s","e","b">>,
     <<"P","l","a","y","e","r","1">>,
     <<"P","L","A","Y","E","R">>,
     <<"e","n","e","m","y">>}
HealthValues == {-5, 0, 1, 50, 100}

InitClassify ==
    /\ pc = "classify"
    /\ handle = "open"
    /\ module_base = Some(16 * GUARD)
    /\ display = "up"
    /\ radar_range = default_range
    /\ raised = "none"
    /\ log = "Entity list pointer"
    /\ table = NoTable
    /\ entities = << >>
    /\ slots_read = 0
    /\ base_failures = 0
    /\ drawn = << >>
    /\ alerted_count = 0
    /\ frames = 0
    /\ probe \in [class_name : ClassNames, instance_name : InstanceNames,
                  health : HealthValues, entity_type : {"object"}]

Classify ==
    /\ pc = "classify"
    /\ probe' = [probe EXCEPT !.entity_type =
                    _classify_entity(probe.class_name, probe.instance_name,
                                     probe.health)]
    /\ pc' = "classified"
    /\ UNCHANGED <<handle, module_base, display, radar_range, raised, log>>
    /\ UNCHANGED tick_vars

NextClassify == Classify

SpecClassify == InitClassify /\ [][NextClassify]_vars

\* ------------------------------------------- the projection on bounded inputs
\* Rotation components and world deltas are integers here; the program holds
\* them as floats, on which the same sums and products are computed.
MaxComponent == 2
MaxDelta == 3
Components == -MaxComponent..MaxComponent
Deltas == -MaxDelta..MaxDelta
Rotations == [cos_theta : Components, sin_theta : Components]
NoPoint == [radar_x |-> 0, radar_y |-> 0]

InitTransform ==
    /\ pc = "transform"
    /\ handle = "open"
    /\ module_base = Some(16 * GUARD)
    /\ display = "up"
    /\ radar_range = default_range
    /\ raised = "none"
    /\ log = "Entity list pointer"
    /\ table = NoTable
    /\ entities = << >>
    /\ slots_read = 0
    /\ base_failures = 0
    /\ drawn = << >>
    /\ alerted_count = 0
    /\ frames = 0
    /\ probe \in [rotation : Rotations, dx : Deltas, dy : Deltas,
                  radar : {NoPoint}, direction : {NoPoint}]

\* the same arguments through to_radar_space and transform_direction_to_radar
Transform ==
    /\ pc = "transform"
    /\ probe' = [probe EXCEPT
                    !.radar = to_radar_space(probe.rotation, probe.dx, probe.dy),
                    !.direction = transform_direction_to_radar(
                                      probe.rotation, probe.dx, probe.dy)]
    /\ pc' = "transformed"
    /\ UNCHANGED <<handle, module_base, display, radar_range, raised, log>>
    /\ UNCHANGED tick_vars

NextTransform == Transform

SpecTransform == InitTransform /\ [][NextTransform]_vars

\* --------------------------------- an entity straight ahead of the player
MaxAhead == 3
AxisRotations ==
    {[cos_theta |-> 1, sin_theta |-> 0], [cos_theta |-> 0, sin_theta |-> 1],
     [cos_theta |-> -1, sin_theta |-> 0], [cos_theta |-> 0, sin_theta |-> -1]}

InitAhead ==
    /\ pc = "ahead"
    /\ handle = "open"
    /\ module_base = Some(16 * GUARD)
    /\ display = "up"
    /\ radar_range = default_range
    /\ raised = "none"
    /\ log = "Entity list pointer"
    /\ table = NoTable
    /\ entities = << >>
    /\ slots_read = 0
    /\ base_failures = 0
    /\ drawn = << >>
    /\ alerted_count = 0
    /\ frames = 0
    /\ probe \in [rotation : AxisRotations, player_x : Deltas,
                  player_y : Deltas, k : 1..MaxAhead,
                  ahead : {NoPoint}, itself : {NoPoint}]

\* rel_x, rel_y and to_radar_space of run(), for an entity and a player at
\* the given positions
ProjectRelative(rotation, entity_x, entity_y, player_x, player_y) ==
    to_radar_space(rotation, entity_x - player_x, entity_y - player_y)

\* the player's rotation applied to an entity k forward vectors away from the
\* player, and to the player
ProjectAhead ==
    /\ pc = "ahead"
    /\ LET forward == forward_vector(probe.rotation)
       IN  probe' = [probe EXCEPT
                       !.ahead = ProjectRelative(
                                     probe.rotation,
                                     probe.player_x + probe.k * forward.x,
                                     probe.player_y + probe.k * forward.y,
                                     probe.player_x, probe.player_y),
                       !.itself = ProjectRelative(
                                     probe.rotation,
                                     probe.player_x, probe.player_y,
                                     probe.player_x, probe.player_y)]
    /\ pc' = "projected"
    /\ UNCHANGED <<handle, module_base, display, radar_range, raised, log>>
    /\ UNCHANGED tick_vars

NextAhead == ProjectAhead

SpecAhead == InitAhead /\ [][NextAhead]_vars

\* ======================================================== the scanner's claims
\* what the game's memory holds in slot i, read straight from the table

\* slot i holds a valid pointer: the read succeeds, and the value is neither
\* zero nor below 0x10000
SlotValid(i) ==
    LET p == SlotOf(table, i).ptr
    IN  p.ok /\ p.v # 0 /\ p.v >= 65536

\* slot i holds a valid pointer to an entity whose x and y are readable and
\* whose position lies within the bound, z counting as 0 when unreadable
SlotDecodable(i) ==
    /\ SlotValid(i)
    /\ LET blk == SlotOf(table, i).blk
       IN  /\ blk.x.ok
           /\ blk.y.ok
           /\ Abs(blk.x.v) < 1000000
           /\ Abs(blk.y.v) < 1000000
           /\ (blk.z.ok => Abs(blk.z.v) < 1000000)

\* the snapshot holds the entity slot i points to
Returned(i) ==
    \E k \in 1..Len(entities) : entities[k].address = SlotOf(table, i).ptr.v

\* the number of valid slots among slots 0..i-1
ValidBefore(i) == Cardinality({j \in 0..(i - 1) : SlotValid(j)})

\* read_all_entities has just run on a table whose base it could read
Scanned == pc = "draw" /\ table.base.ok /\ table.base.v # 0

\* the first slot that holds no decodable entity, MAX_ENTITIES if there is none
FirstGap ==
    IF \A i \in 0..(MAX_ENTITIES - 1) : SlotDecodable(i)
    THEN MAX_ENTITIES
    ELSE CHOOSE i \in 0..(MAX_ENTITIES - 1) :
            ~SlotDecodable(i) /\ \A j \in 0..(i - 1) : SlotDecodable(j)

C2_RejectionNeverAborts ==
    Scanned =>
        \A i \in 0..(MAX_ENTITIES - 2) :
            (i < slots_read /\ SlotValid(i) /\ ~SlotDecodable(i))
                => (SlotDecodable(i + 1) => Returned(i + 1))

\* C4: when slots 0..N-1 hold decodable entities and slot N, N > 10, is
\* invalid, the snapshot is those N records in slot order and slot N is the
\* last slot read.
C4_StopAfterThreshold ==
    (Scanned /\ FirstGap > 10 /\ FirstGap < MAX_ENTITIES /\ ~SlotValid(FirstGap))
        => /\ slots_read = FirstGap + 1
           /\ Len(entities) = FirstGap
           /\ \A k \in 1..Len(entities) :
                 entities[k].address = SlotOf(table, k - 1).ptr.v

\* eleven entities, an invalid slot 11 and an entity in slot 12 that is not read
C4_Witness ==
    /\ Scanned
    /\ FirstGap = 11
    /\ ~SlotValid(11)
    /\ SlotDecodable(12)
    /\ Len(entities) = 11
    /\ slots_read = 12

\* C7: for a slot with a valid pointer that the scan reads, read_entity
\* returns a record exactly when x and y are readable and |x|, |y|, |z| are
\* below 1,000,000 (z as 0 when unreadable); the record carries that position;
\* no other unreadable field rejects it.
C7_DecodeIffPositionOk ==
    Scanned =>
        \A i \in 0..(MAX_ENTITIES - 1) :
            (i < slots_read /\ SlotValid(i)) =>
                LET blk == SlotOf(table, i).blk
                IN  /\ Returned(i) <=> SlotDecodable(i)
                    /\ Returned(i) =>
                          \E k \in 1..Len(entities) :
                              /\ entities[k].address = SlotOf(table, i).ptr.v
                              /\ entities[k].position.x = blk.x.v
                              /\ entities[k].position.y = blk.y.v
                              /\ entities[k].position.z
                                    = (IF blk.z.ok THEN blk.z.v ELSE 0)

\* |x| = 999,999 accepted in slot a, an entity with only x and y readable
\* accepted next to it, and unreadable x rejected in slot b
C7_Witness ==
    /\ Scanned
    /\ table.a >= 0 /\ table.ka = "near_x"
    /\ table.a < slots_read /\ Returned(table.a)
    /\ table.b >= 0 /\ table.kb = "no_x"
    /\ table.b < slots_read /\ ~Returned(table.b)
    /\ \E i \in 0..(MAX_ENTITIES - 1) :
          /\ i < slots_read /\ Returned(i)
          /\ ~SlotOf(table, i).blk.z.ok
          /\ ~SlotOf(table, i).blk.health.ok
          /\ ~SlotOf(table, i).blk.rot_c.ok
          /\ ~SlotOf(table, i).blk.alertness.ok

\* ===================================================== the classifier's claims
\* the markers of the rules, on the lowered names
IndicatesPlayer(class_name, instance_name) ==
    \/ Contains(<<"i","d","p","l","a","y","e","r">>, Lower(class_name))
    \/ Contains(<<"p","l","a","y","e","r">>, Lower(instance_name))
IndicatesPartner(class_name) ==
    Contains(<<"i","d","p","a","r","t","n","e","r">>, Lower(class_name))
IndicatesEnemy(class_name) ==
    Contains(<<"e","n","e","m","y">>, Lower(class_name))
IndicatesNpc(class_name) ==
    \/ Contains(<<"n","p","c">>, Lower(class_name))
    \/ Contains(<<"c","i","v","i","l","i","a","n">>, Lower(class_name))

\* C5: the category is that of the first rule that matches, in the order
\* player, partner, enemy (Enemy if health > 0, else NPC), npc/civilian, object;
\* with the five examples of the claim.
C5_FirstMatchWins ==
    pc = "classified" =>
        LET c == probe.class_name
            i == probe.instance_name
            h == probe.health
            category == probe.entity_type
        IN  /\ IndicatesPlayer(c, i) => category = "player"
            /\ (~IndicatesPlayer(c, i) /\ IndicatesPartner(c)) => category = "partner"
            /\ (~IndicatesPlayer(c, i) /\ ~IndicatesPartner(c) /\ IndicatesEnemy(c))
                  => category = (IF h > 0 THEN "enemy" ELSE "npc")
            /\ (~IndicatesPlayer(c, i) /\ ~IndicatesPartner(c) /\ ~IndicatesEnemy(c)
                  /\ IndicatesNpc(c)) => category = "npc"
            /\ (~IndicatesPlayer(c, i) /\ ~IndicatesPartner(c) /\ ~IndicatesEnemy(c)
                  /\ ~IndicatesNpc(c)) => category = "object"
            /\ (c = n_idPlayer /\ i = << >> /\ h = 100) => category = "player"
            /\ (c = n_idNpcEnemy /\ i = << >> /\ h = 0) => category = "npc"
            /\ (c = n_idNpcEnemy /\ i = << >> /\ h = 50) => category = "enemy"
            /\ (c = n_idPartner /\ i = << >> /\ h = 100) => category = "partner"
            /\ (c = n_idStaticProp /\ i = << >> /\ h = 0) => category = "object"

\* a class name that matches the partner rule and the enemy rule is a partner
C5_Witness ==
    /\ pc = "classified"
    /\ ~IndicatesPlayer(probe.class_name, probe.instance_name)
    /\ IndicatesPartner(probe.class_name)
    /\ IndicatesEnemy(probe.class_name)
    /\ probe.health > 0
    /\ probe.entity_type = "partner"

\* ======================================================== the program's claims
\* C3 as stated: when the program has ended after attaching, the handle of the
\* attached process has been released.
C3_HandleReleasedAtExit == pc = "done" => handle # "open"

\* the entities of the snapshot that memory shows as hostile but not alive
\* (health unreadable, zero or negative)
NotAliveInMemory(i) ==
    LET blk == SlotOf(table, i).blk
    IN  ~(blk.health.ok /\ blk.health.v > 0)

\* C6: every Enemy record of a snapshot has health > 0; an entity whose health
\* in memory is unreadable, zero or negative is no Enemy record, is not drawn
\* as an enemy and is not counted as an alerted enemy, whatever its alertness.
C6_EnemyIsAlive ==
    /\ \A k \in 1..Len(entities) :
          entities[k].entity_type = "enemy" => entities[k].health > 0
    /\ \A i \in 0..(MAX_ENTITIES - 1) :
          (i < slots_read /\ SlotValid(i) /\ NotAliveInMemory(i)) =>
              /\ \A k \in 1..Len(entities) :
                    entities[k].address = SlotOf(table, i).ptr.v
                        => entities[k].entity_type # "enemy"
              /\ \A k \in 1..Len(drawn) :
                    drawn[k].address = SlotOf(table, i).ptr.v
                        => drawn[k].shape \notin {"enemy", "enemy_alerted"}
    /\ alerted_count <=
          Cardinality({i \in 0..(MAX_ENTITIES - 1) :
                          i < slots_read /\ SlotValid(i) /\ ~NotAliveInMemory(i)})

\* a frame that shows a dead hostile with alertness 0 as an NPC, beside a live
\* alerted enemy that is the only one counted
C6_Witness ==
    /\ pc = "events"
    /\ frames > 0
    /\ alerted_count = 1
    /\ \E k \in 1..Len(drawn) : drawn[k].shape = "enemy_alerted"
    /\ \E i \in 0..(MAX_ENTITIES - 1) :
          /\ i < slots_read /\ SlotValid(i) /\ NotAliveInMemory(i)
          /\ SlotOf(table, i).blk.alertness = Some(0)
          /\ IndicatesEnemy(SlotOf(table, i).blk.class_str.v)
          /\ \E k \in 1..Len(drawn) :
                /\ drawn[k].address = SlotOf(table, i).ptr.v
                /\ drawn[k].shape = "npc_circle"

\* the read of the table base failed or gave zero
BaseGaveNothing == ~table.base.ok \/ table.base.v = 0

\* C8: a tick whose table-base read fails or gives zero has an empty snapshot
\* and reads no slot; its frame is still drawn (empty) and the loop goes on to
\* the next events and the next read; a later tick whose base is readable
\* returns what the table then holds, whatever failed before.
C8_EmptyTickKeepsRunning ==
    /\ (pc = "draw" /\ BaseGaveNothing) =>
          (entities = << >> /\ slots_read = 0 /\ ENABLED DrawFrame)
    /\ (pc = "events" /\ frames > 0 /\ BaseGaveNothing) =>
          (entities = << >> /\ drawn = << >> /\ ENABLED HandleEvents)
    /\ pc = "read" => ENABLED ReadAll
    /\ (pc = "draw" /\ ~BaseGaveNothing) =>
          /\ slots_read > 0
          /\ SlotDecodable(0) => (Len(entities) > 0 /\ Returned(0))

\* after a tick whose base read gave nothing and whose frame was drawn, a tick
\* returns entities
C8_Witness ==
    /\ pc = "draw"
    /\ base_failures > 0
    /\ frames > 0
    /\ ~BaseGaveNothing
    /\ Len(entities) > 0

\* C9: when the process cannot be attached or the module base not resolved,
\* main() gets a MemoryReadError and the program is over: no table read, no
\* snapshot, no frame, no display, no further step; the tick loop runs only
\* with a handle and a module base.
C9_StartupFailureIsFatal ==
    /\ (pc # "start" /\ handle = "none") => raised = "MemoryReadError"
    /\ (pc \notin {"start", "attached"} /\ ~module_base.ok)
          => raised = "MemoryReadError"
    /\ raised = "MemoryReadError" =>
          /\ pc = "done"
          /\ log = "Failed to initialize"
          /\ display = "none"
          /\ table = NoTable /\ slots_read = 0 /\ base_failures = 0
          /\ entities = << >>
          /\ drawn = << >> /\ frames = 0
          /\ ~ENABLED Next
    /\ pc \in {"events", "read", "draw", "finally"} =>
          (handle = "open" /\ module_base.ok)

\* the module base could not be resolved after the process was attached
C9_Witness ==
    /\ raised = "MemoryReadError"
    /\ handle = "open"
    /\ ~module_base.ok
    /\ pc = "done"

\* C10: once the display exists, radar_range is within [min_range, max_range],
\* that is 100..5000, a multiple of range_step away from the default, and
\* positive, so that 2 * radar_range, the divisor of scale, is not zero.
C10_RangeWithinBounds ==
    display # "none" =>
        /\ radar_range >= 100 /\ radar_range <= 5000
        /\ radar_range >= min_range /\ radar_range <= max_range
        /\ (radar_range - 1000) % 100 = 0
        /\ radar_range > 0
        /\ 2 * radar_range # 0

\* zoomed out to the upper bound
C10_Witness == display = "up" /\ radar_range = 5000 /\ frames > 0

\* a window-close or an ESC key press is among the events
HasQuit(batch) ==
    \E k \in 1..Len(batch) : batch[k] \in {"QUIT", "K_ESCAPE"}

\* the loop was left through an exception, which is not an event
LoopRaised == log \in {"Interrupted by user", "Unexpected error"}

\* nothing was read, projected or drawn since the poll of this tick
NothingProduced ==
    /\ table = NoTable /\ entities = << >> /\ slots_read = 0
    /\ drawn = << >> /\ alerted_count = 0

\* C11: the result of handle_events is tested once per tick, before the memory
\* read. A poll that observes a window-close or ESC event can only lead to the
\* finally block, with nothing read, projected or drawn in that tick and no
\* frame added; a poll that observes no such event can only lead to the memory
\* read, whatever else it observes. In the finally block no read, no draw and
\* no further poll can happen, only the display shutdown; after it the display
\* is shut down and the program takes no step. The loop is left on a quit
\* event or on an exception, never on another event.
C11_QuitCheckedBeforeSnapshot ==
    /\ pc = "events" =>
          \A events \in EventBatches :
             /\ ENABLED HandleEventsOn(events)
             /\ HasQuit(events) =>
                   ~ENABLED (HandleEventsOn(events) /\ ~(/\ pc' = "finally"
                                                         /\ NothingProduced'
                                                         /\ frames' = frames))
             /\ ~HasQuit(events) =>
                   ~ENABLED (HandleEventsOn(events) /\ pc' # "read")
    /\ pc \in {"read", "draw"} => ~ENABLED Finally
    /\ pc = "finally" =>
          /\ ~ENABLED ReadAll
          /\ ~ENABLED DrawFrame
          /\ ~ENABLED HandleEvents
          /\ ENABLED Finally
          /\ ~ENABLED (Finally /\ ~(pc' = "done" /\ display' = "quit"))
          /\ ~LoopRaised => NothingProduced
    /\ (pc = "done" /\ raised = "none") =>
          /\ display = "quit"
          /\ ~ENABLED Next
          /\ ~LoopRaised => NothingProduced

\* a quit event observed in a tick that follows a drawn frame and a zoom: the
\* loop is left with nothing read in that tick
C11_Witness ==
    /\ pc = "finally"
    /\ ~LoopRaised
    /\ frames > 0
    /\ radar_range = default_range + range_step
    /\ NothingProduced

\* C12: to_radar_space(rotation, dx, dy) is radar_x = -(sin*dx + cos*dy) and
\* radar_y = -(cos*dx - sin*dy) for every rotation (cos, sin) and every delta;
\* for the identity rotation (1, 0) it is exactly (-dy, -dx); and
\* transform_direction_to_radar gives the same result on the same arguments.
C12_RadarSpaceFormula ==
    pc = "transformed" =>
        LET c == probe.rotation.cos_theta
            sn == probe.rotation.sin_theta
        IN  /\ probe.radar.radar_x = -(sn * probe.dx + c * probe.dy)
            /\ probe.radar.radar_y = -(c * probe.dx - sn * probe.dy)
            /\ (c = 1 /\ sn = 0) =>
                  (/\ probe.radar.radar_x = -probe.dy
                   /\ probe.radar.radar_y = -probe.dx)
            /\ probe.direction = probe.radar

\* the identity rotation on a delta with two different non-zero components
C12_Witness ==
    /\ pc = "transformed"
    /\ probe.rotation = [cos_theta |-> 1, sin_theta |-> 0]
    /\ probe.dx = 2 /\ probe.dy = -3
    /\ probe.radar = [radar_x |-> 3, radar_y |-> -2]
    /\ probe.direction = [radar_x |-> 3, radar_y |-> -2]

\* C13: the rotation holder faces up on the radar. For each axis-aligned unit
\* rotation (cos, sin) and every k > 0, an entity at the player's position plus
\* k times the player's forward_vector (cos, -sin) projects through the
\* player's to_radar_space to radar_x = 0 and radar_y = -k, and the player
\* itself projects to (0, 0).
C13_HolderFacesUp ==
    pc = "projected" =>
        /\ probe.k > 0
        /\ probe.ahead.radar_x = 0
        /\ probe.ahead.radar_y = -probe.k
        /\ probe.itself = [radar_x |-> 0, radar_y |-> 0]

\* a player away from the origin, turned a quarter, with an entity two forward
\* vectors ahead
C13_Witness ==
    /\ pc = "projected"
    /\ probe.rotation = [cos_theta |-> 0, sin_theta |-> 1]
    /\ probe.player_x = 2 /\ probe.player_y = -1
    /\ probe.k = 2
    /\ probe.ahead = [radar_x |-> 0, radar_y |-> -2]

\* the value of a pointer read passes the plausibility gate
Gated(pointer) == pointer.ok /\ pointer.v # 0 /\ pointer.v >= 65536

\* the entity of the snapshot that slot i points to
EntityOf(i) ==
    entities[CHOOSE k \in 1..Len(entities) :
                 entities[k].address = SlotOf(table, i).ptr.v]

\* C14: every pointer value read from the game that served as the base address
\* of further reads is non-zero and not below 0x10000. After a scan: if slot
\* reads were issued (at base_address + i * POINTER_SPACING), the table base
\* passed the gate; every entity whose fields were read and returned has a
\* gated address; and every name that was read was read through a gated
\* name pointer.
C14_PointersGatedBeforeUse ==
    pc = "draw" =>
        /\ slots_read > 0 => Gated(table.base)
        /\ \A k \in 1..Len(entities) :
              entities[k].address # 0 /\ entities[k].address >= 65536
        /\ \A i \in 0..(MAX_ENTITIES - 1) :
              (i < slots_read /\ SlotValid(i) /\ Returned(i)) =>
                 LET blk == SlotOf(table, i).blk
                 IN  /\ EntityOf(i).class_name # << >> => Gated(blk.class_ptr)
                     /\ EntityOf(i).instance_name # << >>
                           => Gated(blk.instance_ptr)

====
